---- MODULE Spec2Model ----
(***************************************************************************)
(* A model of zpaq-backup.py: the accept/reject pattern predicate          *)
(* (matches), the filtered directory walk (walk), the batching generator   *)
(* (batch), the archive volume discovery (zpaq_path, zpaq_increments) and  *)
(* the driver of the external archiver (zpaq_add).                         *)
(*                                                                         *)
(* Strings are sequences of one-character strings; a path is a sequence of *)
(* names.  Each function of the program has its own specification          *)
(* (SpecMatch, SpecBatch, SpecWalk, SpecAdd, SpecInc): its Init draws the  *)
(* function's inputs and parks the variables of the other functions.       *)
(***************************************************************************)
EXTENDS Integers, Sequences, FiniteSets, TLC

VARIABLES
    \* matches(value, accepts, rejects): the arguments and the returned value
    value, accepts, rejects, mpc, mret,
    \* batch(stream, count): the source iterator's remaining elements, the
    \* capacity, the locals batch and n, the generator's position, and what
    \* the consumer has received so far; source is the stream as it was given
    source, stream, count, batch, n, bpc, batches,
    \* zpaq_add(archive, root, contents): the arguments, which("zpaq"), the
    \* position, the batch bound by the for loop, the subprocess of the
    \* current invocation, proc.returncode, the invocations made so far, and
    \* how the call ended (a returned value, or an exception)
    archive, root, zpaq, zpc, taken, files, proc, returncode, invocations,
    zret, zexc,
    \* walk(path, accepts, rejects): the directory tree, the root, the locals
    \* queue, max_queue and base_path, what is left of the os.listdir result
    \* the for loop iterates, the generator's position, the paths yielded so
    \* far and the directories listed so far
    fs, path, queue, max_queue, base_path, listing, wpc, yielded, listed,
    \* zpaq_increments(archive): the names that exist in the archive's parent
    \* directory, whether a call has returned, the list it returned, and the
    \* directory as it was when that call was made
    disk, ipc, increments, disk_at_call,
    \* walk_many(paths, accepts, rejects): the argument, what is left of it
    \* for the for loop, the generator's position, and for each walk it
    \* created: its root, where the walk before it stood, and how much had
    \* been yielded and listed by then
    paths, todo, wmpc, starts,
    \* dotfile(name, base): the environment's HOME, the argument base, the
    \* current directory, the directories that hold a file `name`, the local
    \* path, the position, the value returned and the directories examined
    user_home, base, cwd, has, dot_path, dpc, dret, examined

matchVars == <<value, accepts, rejects, mpc, mret>>
batchVars == <<source, stream, count, batch, n, bpc, batches>>
addVars == <<archive, root, zpaq, zpc, taken, files, proc, returncode,
             invocations, zret, zexc>>
walkVars == <<fs, path, queue, max_queue, base_path, listing, wpc, yielded,
              listed>>
incVars == <<disk, ipc, increments, disk_at_call>>
manyVars == <<paths, todo, wmpc, starts>>
dotVars == <<user_home, base, cwd, has, dot_path, dpc, dret, examined>>
vars == <<matchVars, batchVars, addVars, walkVars, incVars, manyVars,
          dotVars>>

\* what an action of one function leaves alone
notMatch == <<batchVars, addVars, walkVars, incVars, manyVars, dotVars>>
notBatch == <<matchVars, addVars, walkVars, incVars, manyVars, dotVars>>
notAdd == <<matchVars, walkVars, incVars, manyVars, dotVars>>
notWalk == <<matchVars, batchVars, addVars, incVars, manyVars, dotVars>>
notInc == <<matchVars, batchVars, walkVars, manyVars, dotVars>>
notMany == <<matchVars, batchVars, addVars, incVars, dotVars>>
notDot == <<matchVars, batchVars, addVars, walkVars, incVars, manyVars>>

----------------------------------------------------------------------------
(* Bounds of the model *)

\* longest string handed to matches as a single name
MaxStrLen == 2
\* longest accepts / rejects list
MaxPats == 2
\* most segments of a collection handed to matches
MaxSegs == 2
\* longest source sequence handed to batch
MaxStream == 4
\* largest capacity handed to batch
MaxCount == 3
\* the capacity zpaq_add batches with: stands for the 10_000 of line 148
BatchSize == 2
\* most paths of the stream handed to zpaq_add
MaxPaths == 4
\* largest exit status of the archiver
MaxStatus == 2
\* most lines the archiver writes to its stdout, most blocks to its stderr
MaxOut == 1
MaxErr == 2
\* the capacity of a pipe, in lines (stdout) or blocks (stderr)
PipeCap == 1
\* most entries of the directory tree below its root
MaxEntries == 4

----------------------------------------------------------------------------
(* Python values *)

\* Optional[list]: None, or a list
None == [isNone |-> TRUE, list |-> <<>>]
Some(l) == [isNone |-> FALSE, list |-> l]

\* `x or ()`: None and the empty list both give the empty tuple
OrEmpty(x) == IF x.isNone THEN <<>> ELSE x.list

\* Optional[int]: None, or an integer
NoneInt == [isNone |-> TRUE, int |-> 0]
Int_(i) == [isNone |-> FALSE, int |-> i]

\* Union[str, Iterable[str]]: a string, or a collection of strings
Str(s) == [isStr |-> TRUE, s |-> s, segs |-> <<>>]
Coll(c) == [isStr |-> FALSE, s |-> <<>>, segs |-> c]

SeqsUpTo(S, len) == UNION {[1..k -> S] : k \in 0..len}

----------------------------------------------------------------------------
(* fnmatch and matches *)

\* the characters names are made of
Alphabet == {"a", ".", "t"}

\* fnmatch.fnmatch(name, pat) on POSIX (normcase is the identity): the whole
\* name must match; "*" matches any run of characters, "?" any one character,
\* any other character itself.  The patterns of the model hold no "[".
RECURSIVE fnmatch(_, _)
fnmatch(name, pat) ==
    IF pat = <<>> THEN name = <<>>
    ELSE IF Head(pat) = "*"
         THEN \/ fnmatch(name, Tail(pat))
              \/ name # <<>> /\ fnmatch(Tail(name), pat)
    ELSE IF name = <<>> THEN FALSE
    ELSE IF Head(pat) = "?" THEN fnmatch(Tail(name), Tail(pat))
    ELSE Head(name) = Head(pat) /\ fnmatch(Tail(name), Tail(pat))

\* `for pat in pats: if fnmatch(value, pat): return ...`: whether the scan
\* reaches a pattern that matches
RECURSIVE AnyFnmatch(_, _)
AnyFnmatch(s, pats) ==
    IF pats = <<>> THEN FALSE
    ELSE IF fnmatch(s, Head(pats)) THEN TRUE
    ELSE AnyFnmatch(s, Tail(pats))

\* mutant: the rejects are scanned before the accepts
MatchesStr_RejectsFirst(s, acc, rej) ==
    IF AnyFnmatch(s, OrEmpty(rej)) THEN FALSE
    ELSE TRUE

\* mutant: a non-empty accepts list is a whitelist
MatchesStr_Whitelist(s, acc, rej) ==
    IF AnyFnmatch(s, OrEmpty(acc)) THEN TRUE
    ELSE IF AnyFnmatch(s, OrEmpty(rej)) THEN FALSE
    ELSE OrEmpty(acc) = <<>>

\* matches, the branch isinstance(value, str)
MatchesStr(s, acc, rej) ==
    IF AnyFnmatch(s, OrEmpty(acc)) THEN TRUE
    ELSE IF AnyFnmatch(s, OrEmpty(rej)) THEN FALSE
    ELSE TRUE

\* mutant: the loop returns the verdict of the first segment
MatchesEach_FirstOnly(segs, acc, rej) ==
    IF segs = <<>> THEN TRUE ELSE MatchesStr(Head(segs), acc, rej)

\* matches, the else branch: `for v in value: if not matches(v, ...): return
\* False`, then True.  Every v is a string, so the inner call takes the
\* string branch.
RECURSIVE MatchesEach(_, _, _)
MatchesEach(segs, acc, rej) ==
    IF segs = <<>> THEN TRUE
    ELSE IF ~MatchesStr(Head(segs), acc, rej) THEN FALSE
    ELSE MatchesEach(Tail(segs), acc, rej)

matches(v, acc, rej) ==
    IF v.isStr THEN MatchesStr(v.s, acc, rej)
    ELSE MatchesEach(v.segs, acc, rej)

----------------------------------------------------------------------------
(* Inputs of matches *)

Strings == SeqsUpTo(Alphabet, MaxStrLen)

\* the glob patterns of the model: "*.t", "a*", "?"
Patterns == { <<"*", ".", "t">>, <<"a", "*">>, <<"?">> }

PatternLists == SeqsUpTo(Patterns, MaxPats)

\* the names a collection is made of: "a", "a.t", ".t", "tt"
Segments == { <<"a">>, <<"a", ".", "t">>, <<".", "t">>, <<"t", "t">> }

Collections == SeqsUpTo(Segments, MaxSegs)

MatchOff ==
    /\ value = Str(<<>>) /\ accepts = None /\ rejects = None
    /\ mpc = "off" /\ mret = FALSE

MatchInit ==
    /\ \/ \E s \in Strings : value = Str(s)
       \/ \E c \in Collections : value = Coll(c)
    /\ \/ accepts = None
       \/ \E l \in PatternLists : accepts = Some(l)
    /\ \/ rejects = None
       \/ \E l \in PatternLists : rejects = Some(l)
    /\ mpc = "call"
    /\ mret = FALSE

\* the call matches(value, accepts, rejects) returns
Matches ==
    /\ mpc = "call"
    /\ mret' = matches(value, accepts, rejects)
    /\ mpc' = "return"
    /\ UNCHANGED <<value, accepts, rejects>>
    /\ UNCHANGED notMatch

----------------------------------------------------------------------------
(* batch: a generator.  It runs from one yield to the next each time its   *)
(* consumer calls next() on it; bpc is where it stands:                    *)
(*   "start"  created, not yet run                                         *)
(*   "run"    in the loop, about to call next(stream)        (line 114)    *)
(*   "yield"  suspended at the yield of a full batch         (line 116)    *)
(*   "last"   suspended at the yield of the final batch      (line 120)    *)
(*   "done"   returned                                                     *)

\* the elements of a source sequence
Elems == {"p", "q"}

BatchOff ==
    /\ source = <<>> /\ stream = <<>> /\ count = 1
    /\ batch = <<>> /\ n = 0 /\ bpc = "off" /\ batches = <<>>

\* batch(iter(src), cnt) is called: a generator object, nothing has run
BatchCreated(src, cnt) ==
    /\ source = src /\ stream = src /\ count = cnt
    /\ batch = <<>> /\ n = 0 /\ bpc = "start" /\ batches = <<>>

BatchInit ==
    \E src \in SeqsUpTo(Elems, MaxStream), cnt \in 1..MaxCount :
        BatchCreated(src, cnt)

\* the first next(): lines 110-111
BatchStart ==
    /\ bpc = "start"
    /\ batch' = <<>> /\ n' = 0
    /\ bpc' = "run"
    /\ UNCHANGED <<source, stream, count, batches>>
    /\ UNCHANGED notBatch

\* mutant: the batch is yielded one element late
BatchPull_LateYield ==
    /\ bpc = "run" /\ stream # <<>>
    /\ batch' = Append(batch, Head(stream))
    /\ stream' = Tail(stream)
    /\ n' = n + 1
    /\ IF n' = count + 1
       THEN bpc' = "yield" /\ batches' = Append(batches, batch')
       ELSE bpc' = "run" /\ batches' = batches
    /\ UNCHANGED <<source, count>>
    /\ UNCHANGED notBatch

\* lines 114-116: next(stream) gives an element; it is appended, and the
\* batch is yielded when n reaches count
BatchPull ==
    /\ bpc = "run" /\ stream # <<>>
    /\ batch' = Append(batch, Head(stream))
    /\ stream' = Tail(stream)
    /\ n' = n + 1
    /\ IF n' = count
       THEN bpc' = "yield" /\ batches' = Append(batches, batch')
       ELSE bpc' = "run" /\ batches' = batches
    /\ UNCHANGED <<source, count>>
    /\ UNCHANGED notBatch

\* mutant: the source's end drops the partial batch
BatchStop_NoYield ==
    /\ bpc = "run" /\ stream = <<>>
    /\ bpc' = "last"
    /\ UNCHANGED <<source, stream, count, batch, n, batches>>
    /\ UNCHANGED notBatch

\* mutant: an empty final batch is not yielded
BatchStop_SkipEmpty ==
    /\ bpc = "run" /\ stream = <<>>
    /\ bpc' = "last"
    /\ batches' = IF batch = <<>> THEN batches ELSE Append(batches, batch)
    /\ UNCHANGED <<source, stream, count, batch, n>>
    /\ UNCHANGED notBatch

\* lines 119-120: next(stream) raises StopIteration; the current batch is
\* yielded as the final one
BatchStop ==
    /\ bpc = "run" /\ stream = <<>>
    /\ bpc' = "last" /\ batches' = Append(batches, batch)
    /\ UNCHANGED <<source, stream, count, batch, n>>
    /\ UNCHANGED notBatch

\* mutant: n is not reset after a full batch
BatchResume_KeepN ==
    /\ bpc = "yield"
    /\ batch' = <<>> /\ n' = n
    /\ bpc' = "run"
    /\ UNCHANGED <<source, stream, count, batches>>
    /\ UNCHANGED notBatch

\* lines 117-118: next() after a full batch: a new list, n back to 0
BatchResume ==
    /\ bpc = "yield"
    /\ batch' = <<>> /\ n' = 0
    /\ bpc' = "run"
    /\ UNCHANGED <<source, stream, count, batches>>
    /\ UNCHANGED notBatch

\* line 121: next() after the final batch: break, the generator returns
BatchBreak ==
    /\ bpc = "last"
    /\ bpc' = "done"
    /\ UNCHANGED <<source, stream, count, batch, n, batches>>
    /\ UNCHANGED notBatch

----------------------------------------------------------------------------
(* Paths and archive names.  A path is a sequence of names; an archive is  *)
(* its absolute parent directory and its file name.                        *)

IsUnder(p, dir) ==
    Len(dir) <= Len(p) /\ SubSeq(p, 1, Len(dir)) = dir

\* mutant: the paths are handed over as they are
relative_to_Absolute(p, dir) == p

\* PurePath.relative_to, for a path under the directory (ValueError otherwise)
relative_to(p, dir) == SubSeq(p, Len(dir) + 1, Len(p))

\* name.split('.')[0]: the text before the first dot
RECURSIVE BeforeFirstDot(_)
BeforeFirstDot(name) ==
    IF name = <<>> \/ Head(name) = "." THEN <<>>
    ELSE <<Head(name)>> \o BeforeFirstDot(Tail(name))

\* "-???.zpaq"
VolumeSuffix == <<"-", "?", "?", "?", ".", "z", "p", "a", "q">>

\* zpaq_path(archive, incremental)
zpaq_path(arch, incremental) ==
    IF incremental
    THEN Append(arch.parent, BeforeFirstDot(arch.name) \o VolumeSuffix)
    ELSE Append(arch.parent, arch.name)

\* the text before the last dot
RECURSIVE BeforeLastDot(_)
BeforeLastDot(name) ==
    IF name = <<>> THEN <<>>
    ELSE IF name[Len(name)] = "." THEN SubSeq(name, 1, Len(name) - 1)
    ELSE BeforeLastDot(SubSeq(name, 1, Len(name) - 1))

\* mutant: the base name is the text before the last dot (Path.stem)
archive_path_LastDot(arch) ==
    Append(arch.parent, BeforeLastDot(arch.name) \o VolumeSuffix)

\* the archive_path of zpaq_add, line 147
archive_path(arch) ==
    Append(arch.parent, BeforeFirstDot(arch.name) \o VolumeSuffix)

\* the archives of the model: /b/x.zpaq and /b/x.y.zpaq
Archives ==
    { [parent |-> << <<"b">> >>, name |-> <<"x", ".", "z", "p", "a", "q">>],
      [parent |-> << <<"b">> >>,
       name |-> <<"x", ".", "y", ".", "z", "p", "a", "q">>] }

\* the root of zpaq_add, /r, and the paths of its stream: /r/a, /r/d/b and
\* /o/a, which is not under the root
RootDir == << <<"r">> >>
ContentPaths ==
    { << <<"r">>, <<"a">> >>,
      << <<"r">>, <<"d">>, <<"b">> >>,
      << <<"o">>, <<"a">> >> }

----------------------------------------------------------------------------
(* zpaq_add.  zpc is where the call stands:                                *)
(*   "for"          at the for statement: in next(), or holding the batch  *)
(*                  it returned                              (line 148)    *)
(*   "drain"        in the readline loop                     (line 157)    *)
(*   "communicate"  in proc.communicate(timeout=15)          (line 160)    *)
(*   "status"       about to test proc.returncode            (line 161)    *)
(*   "returned", "raised"   the call has ended                             *)
(* proc is the archiver subprocess: what it still has to write, what its   *)
(* two pipes hold, whether it has closed its stdout or exited.             *)

NoProc == [state |-> "none", outLeft |-> 0, errLeft |-> 0,
           outPipe |-> 0, errPipe |-> 0, status |-> 0]

NoArchive == archive = [parent |-> <<>>, name |-> <<>>]

AddIdle ==
    /\ root = <<>>
    /\ zpaq = "None" /\ zpc = "off" /\ taken = 0 /\ files = <<>>
    /\ proc = NoProc /\ returncode = NoneInt /\ invocations = <<>>
    /\ zret = NoneInt /\ zexc = ""

AddOff == NoArchive /\ AddIdle

\* lines 146-148: which("zpaq"), the archive pattern, the batch generator
AddInit ==
    \E src \in SeqsUpTo(ContentPaths, MaxPaths), arch \in Archives,
       z \in {"zpaq", "None"} :
        /\ BatchCreated(src, BatchSize)
        /\ archive = arch /\ root = RootDir /\ zpaq = z
        /\ zpc = "for" /\ taken = 0 /\ files = <<>>
        /\ proc = NoProc /\ returncode = NoneInt /\ invocations = <<>>
        /\ zret = NoneInt /\ zexc = ""

\* the for statement calls next() on the batch generator: every batch it
\* has yielded has been taken
ZpaqForNext == zpc = "for" /\ Len(batches) = taken

\* lines 149-156: the for statement binds the batch; Popen is called with
\* the batch's paths relative to root.  relative_to raises ValueError for a
\* path that is not under root, and Popen raises TypeError when which()
\* found no zpaq.
ZpaqPopen ==
    /\ zpc = "for" /\ Len(batches) = taken + 1
    /\ taken' = taken + 1
    /\ files' = batches[taken + 1]
    /\ IF \E i \in 1..Len(files') : ~IsUnder(files'[i], root)
       THEN /\ zexc' = "ValueError" /\ zpc' = "raised"
            /\ UNCHANGED <<proc, invocations>>
       ELSE IF zpaq = "None"
       THEN /\ zexc' = "TypeError" /\ zpc' = "raised"
            /\ UNCHANGED <<proc, invocations>>
       ELSE /\ \E o \in 0..MaxOut, e \in 0..MaxErr :
                proc' = [state |-> "running", outLeft |-> o, errLeft |-> e,
                         outPipe |-> 0, errPipe |-> 0, status |-> 0]
            /\ invocations' = Append(invocations,
                  [argv |-> [bin |-> zpaq, cmd |-> "add",
                             target |-> archive_path(archive),
                             paths |-> [i \in 1..Len(files') |->
                                           relative_to(files'[i], root)]],
                   cwd |-> root,
                   batch |-> taken + 1,
                   status |-> NoneInt])
            /\ zpc' = "drain" /\ zexc' = zexc
    /\ returncode' = NoneInt
    /\ UNCHANGED <<archive, root, zpaq, zret>>
    /\ UNCHANGED <<batchVars, notAdd>>

Running == zpc \in {"drain", "communicate"}

\* the archiver writes a line to its stdout, when the pipe has room
ChildWriteOut ==
    /\ Running /\ proc.state = "running"
    /\ proc.outLeft > 0 /\ proc.outPipe < PipeCap
    /\ proc' = [proc EXCEPT !.outLeft = @ - 1, !.outPipe = @ + 1]
    /\ UNCHANGED <<archive, root, zpaq, zpc, taken, files, returncode,
                   invocations, zret, zexc>>
    /\ UNCHANGED <<batchVars, notAdd>>

\* the archiver writes a block to its stderr, when the pipe has room
ChildWriteErr ==
    /\ Running /\ proc.state \in {"running", "closed"}
    /\ proc.errLeft > 0 /\ proc.errPipe < PipeCap
    /\ proc' = [proc EXCEPT !.errLeft = @ - 1, !.errPipe = @ + 1]
    /\ UNCHANGED <<archive, root, zpaq, zpc, taken, files, returncode,
                   invocations, zret, zexc>>
    /\ UNCHANGED <<batchVars, notAdd>>

\* the archiver closes its stdout and goes on running
ChildCloseStdout ==
    /\ Running /\ proc.state = "running" /\ proc.outLeft = 0
    /\ proc' = [proc EXCEPT !.state = "closed"]
    /\ UNCHANGED <<archive, root, zpaq, zpc, taken, files, returncode,
                   invocations, zret, zexc>>
    /\ UNCHANGED <<batchVars, notAdd>>

\* the archiver has written all it had to and exits with some status
ChildExit ==
    /\ Running /\ proc.state \in {"running", "closed"}
    /\ proc.outLeft = 0 /\ proc.errLeft = 0
    /\ \E s \in 0..MaxStatus :
          proc' = [proc EXCEPT !.state = "exited", !.status = s]
    /\ UNCHANGED <<archive, root, zpaq, zpc, taken, files, returncode,
                   invocations, zret, zexc>>
    /\ UNCHANGED <<batchVars, notAdd>>

\* lines 157-158: readline returns a line, which is printed
ZpaqReadline ==
    /\ zpc = "drain" /\ proc.outPipe > 0
    /\ proc' = [proc EXCEPT !.outPipe = @ - 1]
    /\ UNCHANGED <<archive, root, zpaq, zpc, taken, files, returncode,
                   invocations, zret, zexc>>
    /\ UNCHANGED <<batchVars, notAdd>>

\* mutant: at the end of the stream the loop goes on to the next batch
\* without waiting for the subprocess
ZpaqEof_NoWait ==
    /\ zpc = "drain" /\ proc.outPipe = 0
    /\ proc.state \in {"closed", "exited"}
    /\ zpc' = "for"
    /\ UNCHANGED <<archive, root, zpaq, taken, files, proc, returncode,
                   invocations, zret, zexc>>
    /\ UNCHANGED <<batchVars, notAdd>>

\* mutant: the end of the stream does not end the loop
ZpaqEof_Spin ==
    /\ zpc = "drain" /\ proc.outPipe = 0
    /\ proc.state \in {"closed", "exited"}
    /\ UNCHANGED vars

\* lines 157 and 159: readline returns b"" at the end of the stream (the
\* pipe is empty and its write end closed); the loop ends and returncode,
\* which nothing has set, is tested against None
ZpaqEof ==
    /\ zpc = "drain" /\ proc.outPipe = 0
    /\ proc.state \in {"closed", "exited"}
    /\ zpc' = IF returncode.isNone THEN "communicate" ELSE "status"
    /\ UNCHANGED <<archive, root, zpaq, taken, files, proc, returncode,
                   invocations, zret, zexc>>
    /\ UNCHANGED <<batchVars, notAdd>>

\* line 160: communicate reads what stderr holds
ZpaqCommunicateRead ==
    /\ zpc = "communicate" /\ proc.errPipe > 0
    /\ proc' = [proc EXCEPT !.errPipe = 0]
    /\ UNCHANGED <<archive, root, zpaq, zpc, taken, files, returncode,
                   invocations, zret, zexc>>
    /\ UNCHANGED <<batchVars, notAdd>>

\* line 160: communicate has read both streams to their end and waits for
\* the subprocess, which sets returncode
ZpaqCommunicateWait ==
    /\ zpc = "communicate" /\ proc.state = "exited" /\ proc.errPipe = 0
    /\ returncode' = Int_(proc.status)
    /\ invocations' = [invocations EXCEPT
                          ![Len(invocations)].status = Int_(proc.status)]
    /\ zpc' = "status"
    /\ UNCHANGED <<archive, root, zpaq, taken, files, proc, zret, zexc>>
    /\ UNCHANGED <<batchVars, notAdd>>

\* line 160: the subprocess is still running after 15 seconds:
\* TimeoutExpired
ZpaqCommunicateTimeout ==
    /\ zpc = "communicate" /\ proc.state = "closed"
    /\ zexc' = "TimeoutExpired" /\ zpc' = "raised"
    /\ UNCHANGED <<archive, root, zpaq, taken, files, proc, returncode,
                   invocations, zret>>
    /\ UNCHANGED <<batchVars, notAdd>>

\* mutant: a non-zero status is reported and the loop goes on
ZpaqStatus_Continue ==
    /\ zpc = "status"
    /\ zpc' = "for"
    /\ UNCHANGED <<archive, root, zpaq, taken, files, proc, returncode,
                   invocations, zret, zexc>>
    /\ UNCHANGED <<batchVars, notAdd>>

\* lines 161-163: a status other than 0 is returned; after a status of 0
\* the loop goes on
ZpaqStatus ==
    /\ zpc = "status"
    /\ IF returncode # Int_(0)
       THEN zret' = returncode /\ zpc' = "returned"
       ELSE zret' = zret /\ zpc' = "for"
    /\ UNCHANGED <<archive, root, zpaq, taken, files, proc, returncode,
                   invocations, zexc>>
    /\ UNCHANGED <<batchVars, notAdd>>

\* line 164: the generator is exhausted, the loop ends and the function
\* ends without a return statement: the call returns None
ZpaqEnd ==
    /\ zpc = "for" /\ bpc = "done"
    /\ zret' = NoneInt /\ zpc' = "returned"
    /\ UNCHANGED <<archive, root, zpaq, taken, files, proc, returncode,
                   invocations, zexc>>
    /\ UNCHANGED <<batchVars, notAdd>>

----------------------------------------------------------------------------
(* The directory tree.  fs maps the path of every entry below the root to  *)
(* its kind: a directory, a regular file, or any other entry for which     *)
(* os.path.isdir is false (a FIFO, a socket, a device, a dangling link).   *)
(* The tree holds no link to a directory.                                  *)

Kinds == {"dir", "file", "other"}

NameA == <<"a">>
NameD == <<"d">>
NameTmp == <<"x", ".", "t", "m", "p">>

\* the root of the walk: its own name matches *.tmp
WalkRoot == << <<"r", ".", "t", "m", "p">> >>

\* the entries a tree of the model is made of
Universe ==
    { WalkRoot \o u : u \in
        { <<NameA>>, <<NameD>>, <<NameTmp>>,
          <<NameD, NameA>>, <<NameD, NameTmp>>, <<NameD, NameD>>,
          <<NameTmp, NameA>>,
          <<NameD, NameD, NameA>> } }

Parent(p) == SubSeq(p, 1, Len(p) - 1)

\* a tree: every entry's parent is the root or a directory of the tree
IsTree(f) ==
    \A p \in DOMAIN f :
        Parent(p) = WalkRoot \/ (Parent(p) \in DOMAIN f /\ f[Parent(p)] = "dir")

Trees ==
    UNION { {f \in [S -> Kinds] : IsTree(f)} :
            S \in {T \in SUBSET Universe : Cardinality(T) <= MaxEntries} }

\* os.path.isdir
isdir(f, p) == p = WalkRoot \/ (p \in DOMAIN f /\ f[p] = "dir")

\* the names os.listdir(dir) returns, as a set
Entries(f, dir) ==
    { p[Len(p)] : p \in {q \in DOMAIN f : Parent(q) = dir} }

\* os.listdir returns the names in arbitrary order
Orders(S) ==
    { o \in [1..Cardinality(S) -> S] :
        \A i, j \in 1..Cardinality(S) : i # j => o[i] # o[j] }

\* the accepts and rejects walk is called with: none, empty lists,
\* rejects = ["*.tmp"], and accepts = ["x*"] with rejects = ["*.tmp"]
PatTmp == <<"*", ".", "t", "m", "p">>
WalkFilters ==
    { <<None, None>>,
      <<Some(<<>>), Some(<<>>)>>,
      <<None, Some(<<PatTmp>>)>>,
      <<Some(<< <<"x", "*">> >>), Some(<<PatTmp>>)>> }

----------------------------------------------------------------------------
(* walk, implementation 1 (lines 85-97): a generator.  wpc is where it     *)
(* stands:                                                                 *)
(*   "start"  created, not yet run                                         *)
(*   "while"  at the test of the while loop                  (line 87)     *)
(*   "for"    in the for loop over the listing               (line 91)     *)
(*   "yield"  suspended at the yield                         (line 97)     *)
(*   "done"   returned                                                     *)

WalkOff ==
    /\ fs = <<>> /\ path = <<>> /\ queue = <<>> /\ max_queue = 0
    /\ base_path = <<>> /\ listing = <<>> /\ wpc = "off"
    /\ yielded = <<>> /\ listed = <<>>

MatchIdle == value = Str(<<>>) /\ mpc = "off" /\ mret = FALSE

WalkInit ==
    /\ fs \in Trees
    /\ \E f \in WalkFilters : accepts = f[1] /\ rejects = f[2]
    /\ path = WalkRoot
    /\ queue = <<>> /\ max_queue = 0 /\ base_path = <<>> /\ listing = <<>>
    /\ wpc = "start" /\ yielded = <<>> /\ listed = <<>>

\* the first next(): lines 85-86
WalkStart ==
    /\ wpc = "start"
    /\ queue' = <<path>> /\ max_queue' = 0
    /\ wpc' = "while"
    /\ UNCHANGED <<fs, path, base_path, listing, yielded, listed>>
    /\ UNCHANGED notWalk

\* mutant: the last element of the queue is read and left on the queue
WalkPop_Peek ==
    /\ wpc = "while" /\ queue # <<>>
    /\ max_queue' = IF Len(queue) > max_queue THEN Len(queue) ELSE max_queue
    /\ base_path' = queue[Len(queue)]
    /\ queue' = queue
    /\ listing' \in Orders(Entries(fs, base_path'))
    /\ listed' = Append(listed, base_path')
    /\ wpc' = "for"
    /\ UNCHANGED <<fs, path, yielded>>
    /\ UNCHANGED notWalk

\* lines 87-91: the queue is not empty; its last element is popped and
\* listed
WalkPop ==
    /\ wpc = "while" /\ queue # <<>>
    /\ max_queue' = IF Len(queue) > max_queue THEN Len(queue) ELSE max_queue
    /\ base_path' = queue[Len(queue)]
    /\ queue' = SubSeq(queue, 1, Len(queue) - 1)
    /\ listing' \in Orders(Entries(fs, base_path'))
    /\ listed' = Append(listed, base_path')
    /\ wpc' = "for"
    /\ UNCHANGED <<fs, path, yielded>>
    /\ UNCHANGED notWalk

\* mutant: only files are tested against the patterns
WalkEntry_DirsUnfiltered ==
    /\ wpc = "for" /\ listing # <<>>
    /\ listing' = Tail(listing)
    /\ LET rel_path == Head(listing)
           abs_path == Append(base_path, rel_path)
       IN  IF isdir(fs, abs_path)
           THEN queue' = Append(queue, abs_path)
                /\ wpc' = "for" /\ yielded' = yielded
           ELSE IF matches(Str(rel_path), accepts, rejects)
           THEN yielded' = Append(yielded, abs_path)
                /\ wpc' = "yield" /\ queue' = queue
           ELSE UNCHANGED <<queue, wpc, yielded>>
    /\ UNCHANGED <<fs, path, max_queue, base_path, listed>>
    /\ UNCHANGED notWalk

\* mutant: a directory is not pushed on the queue
WalkEntry_NoPush ==
    /\ wpc = "for" /\ listing # <<>>
    /\ listing' = Tail(listing)
    /\ LET rel_path == Head(listing)
           abs_path == Append(base_path, rel_path)
       IN  IF matches(Str(rel_path), accepts, rejects) /\ ~isdir(fs, abs_path)
           THEN yielded' = Append(yielded, abs_path)
                /\ wpc' = "yield" /\ queue' = queue
           ELSE UNCHANGED <<queue, wpc, yielded>>
    /\ UNCHANGED <<fs, path, max_queue, base_path, listed>>
    /\ UNCHANGED notWalk

\* lines 91-97: the next name of the listing: when it passes matches, a
\* directory is pushed on the queue and anything else is yielded
WalkEntry ==
    /\ wpc = "for" /\ listing # <<>>
    /\ listing' = Tail(listing)
    /\ LET rel_path == Head(listing)
           abs_path == Append(base_path, rel_path)
       IN  IF matches(Str(rel_path), accepts, rejects)
           THEN IF isdir(fs, abs_path)
                THEN queue' = Append(queue, abs_path)
                     /\ wpc' = "for" /\ yielded' = yielded
                ELSE yielded' = Append(yielded, abs_path)
                     /\ wpc' = "yield" /\ queue' = queue
           ELSE UNCHANGED <<queue, wpc, yielded>>
    /\ UNCHANGED <<fs, path, max_queue, base_path, listed>>
    /\ UNCHANGED notWalk

\* line 91: the listing is exhausted, back to the while test
WalkEndFor ==
    /\ wpc = "for" /\ listing = <<>>
    /\ wpc' = "while"
    /\ UNCHANGED <<fs, path, queue, max_queue, base_path, listing, yielded,
                   listed>>
    /\ UNCHANGED notWalk

\* next() after a yield: the for loop goes on
WalkResume ==
    /\ wpc = "yield"
    /\ wpc' = "for"
    /\ UNCHANGED <<fs, path, queue, max_queue, base_path, listing, yielded,
                   listed>>
    /\ UNCHANGED notWalk

\* line 87: the queue is empty, the generator returns
WalkReturn ==
    /\ wpc = "while" /\ queue = <<>>
    /\ wpc' = "done"
    /\ UNCHANGED <<fs, path, queue, max_queue, base_path, listing, yielded,
                   listed>>
    /\ UNCHANGED notWalk

----------------------------------------------------------------------------
(* walk_many (lines 100-106): a generator that delegates to one walk after *)
(* the other.  wmpc is where it stands:                                    *)
(*   "for"   at the for statement, about to take the next path             *)
(*   "in"    inside `yield from walk(path, ...)`                           *)
(*   "done"  returned                                                      *)
(* yielded and listed go on through the walks: what walk_many has yielded  *)
(* and every os.listdir call made, in order.                               *)

WalkManyOff == paths = <<>> /\ todo = <<>> /\ wmpc = "off" /\ starts = <<>>

\* the directories of a tree
Dirs(f) == {WalkRoot} \cup {p \in DOMAIN f : f[p] = "dir"}

\* the lists of roots walk_many is called with: none, one, two distinct
\* ones, one inside the other in both orders, the same one twice
RootLists ==
    { <<>>,
      <<WalkRoot>>,
      <<WalkRoot \o <<NameD>>, WalkRoot \o <<NameTmp>>>>,
      <<WalkRoot \o <<NameD>>, WalkRoot>>,
      <<WalkRoot, WalkRoot \o <<NameD>>>>,
      <<WalkRoot \o <<NameD>>, WalkRoot \o <<NameD>>>> }

WalkManyInit ==
    /\ fs \in Trees
    /\ \E f \in WalkFilters : accepts = f[1] /\ rejects = f[2]
    /\ paths \in {l \in RootLists : \A i \in 1..Len(l) : l[i] \in Dirs(fs)}
    /\ todo = paths /\ wmpc = "for" /\ starts = <<>>
    /\ path = <<>> /\ queue = <<>> /\ max_queue = 0 /\ base_path = <<>>
    /\ listing = <<>> /\ wpc = "off" /\ yielded = <<>> /\ listed = <<>>

\* mutant: the next walk is taken up as soon as the current one has
\* yielded a path
WalkManyNext_Early ==
    /\ wmpc \in {"for", "in"} /\ wpc \in {"off", "done", "yield"}
    /\ todo # <<>>
    /\ path' = Head(todo) /\ todo' = Tail(todo)
    /\ queue' = <<>> /\ max_queue' = 0 /\ base_path' = <<>>
    /\ listing' = <<>> /\ wpc' = "start"
    /\ wmpc' = "in"
    /\ starts' = Append(starts, [root |-> Head(todo), before |-> wpc,
                                 nyielded |-> Len(yielded),
                                 nlisted |-> Len(listed)])
    /\ UNCHANGED <<fs, yielded, listed, paths>>
    /\ UNCHANGED notMany

\* lines 105-106: the for statement takes the next path and a walk of it is
\* created, to be run by yield from
WalkManyNext ==
    /\ wmpc = "for" /\ todo # <<>>
    /\ path' = Head(todo) /\ todo' = Tail(todo)
    /\ queue' = <<>> /\ max_queue' = 0 /\ base_path' = <<>>
    /\ listing' = <<>> /\ wpc' = "start"
    /\ wmpc' = "in"
    /\ starts' = Append(starts, [root |-> Head(todo), before |-> wpc,
                                 nyielded |-> Len(yielded),
                                 nlisted |-> Len(listed)])
    /\ UNCHANGED <<fs, yielded, listed, paths>>
    /\ UNCHANGED notMany

\* line 106: the walk has returned, yield from ends
WalkManyYieldFromEnd ==
    /\ wmpc = "in" /\ wpc = "done"
    /\ wmpc' = "for"
    /\ UNCHANGED <<paths, todo, starts>>
    /\ UNCHANGED <<walkVars, notMany>>

\* line 105: no path is left, walk_many returns
WalkManyReturn ==
    /\ wmpc = "for" /\ todo = <<>>
    /\ wmpc' = "done"
    /\ UNCHANGED <<paths, todo, starts>>
    /\ UNCHANGED <<walkVars, notMany>>

----------------------------------------------------------------------------
(* dotfile (lines 37-48).  A directory is the sequence of its names below  *)
(* the filesystem root, which is <<>>.  The values the function compares   *)
(* are Python objects of different classes, so each carries its class: a   *)
(* Path and a str are never equal, whatever they spell.                    *)
(* dpc is where the call stands: "call", "while" (at the loop's test),     *)
(* "returned".                                                             *)

PyNone == [type |-> "None", p |-> <<>>]
PyStr(d) == [type |-> "str", p |-> d]
PyPath(d) == [type |-> "Path", p |-> d]

\* a != b
PyNe(a, b) == a.type # b.type \/ a.p # b.p

\* Path.parent: the parent of the root is the root
PathParent(d) == IF d = <<>> THEN <<>> ELSE SubSeq(d, 1, Len(d) - 1)

\* the directories of the model: /, /h, /h/u, /h/u/w and /o
DotDirs == { <<>>, <<"h">>, <<"h", "u">>, <<"h", "u", "w">>, <<"o">> }

\* the name looked for (line 53)
DotName == ".gitignore"

DotOff ==
    /\ user_home = PyNone /\ base = PyNone /\ cwd = <<>> /\ has = {}
    /\ dot_path = <<>> /\ dpc = "off" /\ dret = PyNone /\ examined = <<>>

\* a call in some environment: HOME unset or the text of a directory, base
\* absent or an absolute directory
DotfileInit ==
    /\ user_home \in {PyNone} \cup {PyStr(d) : d \in DotDirs}
    /\ base \in {PyNone} \cup {PyPath(d) : d \in DotDirs}
    /\ cwd \in DotDirs
    /\ has \in SUBSET DotDirs
    /\ dot_path = <<>> /\ dpc = "call" /\ dret = PyNone /\ examined = <<>>

\* lines 39-40: Path(base or ".").absolute()
DotfileCall ==
    /\ dpc = "call"
    /\ dot_path' = IF base = PyNone THEN cwd ELSE base.p
    /\ dpc' = "while"
    /\ UNCHANGED <<user_home, base, cwd, has, dret, examined>>
    /\ UNCHANGED notDot

\* lines 41-47: one turn of the loop: path / name is looked for; when it
\* is not there and path != user_home, the parent is next
DotfileStep ==
    /\ dpc = "while"
    /\ PyNe(PyPath(dot_path), PyPath(PathParent(dot_path)))
    /\ examined' = Append(examined, dot_path)
    /\ IF dot_path \in has
       THEN /\ dret' = PyPath(Append(dot_path, DotName))
            /\ dpc' = "returned"
            /\ UNCHANGED dot_path
       ELSE IF PyNe(PyPath(dot_path), user_home)
       THEN /\ dot_path' = PathParent(dot_path)
            /\ UNCHANGED <<dpc, dret>>
       ELSE /\ dret' = PyNone
            /\ dpc' = "returned"
            /\ UNCHANGED dot_path
    /\ UNCHANGED <<user_home, base, cwd, has>>
    /\ UNCHANGED notDot

\* lines 41 and 48: path == path.parent, the loop ends and None is returned
DotfileEnd ==
    /\ dpc = "while"
    /\ ~PyNe(PyPath(dot_path), PyPath(PathParent(dot_path)))
    /\ dret' = PyNone
    /\ dpc' = "returned"
    /\ UNCHANGED <<user_home, base, cwd, has, dot_path, examined>>
    /\ UNCHANGED notDot

----------------------------------------------------------------------------
(* zpaq_increments (lines 133-140) and the directory of the archive        *)

\* the names that may exist in the parent directory of the archive:
\* x-000.zpaq, x-001.zpaq, x-0000.zpaq, y-000.zpaq, x.zpaq, x.y.zpaq
Zpaq == <<".", "z", "p", "a", "q">>
DiskNames ==
    { <<"x", "-", "0", "0", "0">> \o Zpaq,
      <<"x", "-", "0", "0", "1">> \o Zpaq,
      <<"x", "-", "0", "0", "0", "0">> \o Zpaq,
      <<"y", "-", "0", "0", "0">> \o Zpaq,
      <<"x">> \o Zpaq,
      <<"x", ".", "y">> \o Zpaq }

\* glob.glob(pattern), as a set: the names of the pattern's directory that
\* match its last component; a name that starts with a dot matches only a
\* pattern that starts with a dot
GlobSet(names, pattern) ==
    LET pat == pattern[Len(pattern)]
        hidden(s) == s # <<>> /\ Head(s) = "."
    IN  { Append(Parent(pattern), nm) :
            nm \in {m \in names : fnmatch(m, pat) /\ (hidden(m) => hidden(pat))} }

\* zpaq_increments(archive), with the directory holding `names`: the lists
\* the call may return.  glob returns the matching paths in the order the
\* directory is read, which is arbitrary.
zpaq_increments(names, arch) ==
    IF GlobSet(names, zpaq_path(arch, TRUE)) # {}
    THEN Orders(GlobSet(names, zpaq_path(arch, TRUE)))
    ELSE IF arch.name \in names THEN { <<zpaq_path(arch, FALSE)>> }
    ELSE { <<>> }

IncOff ==
    /\ disk = {} /\ ipc = "off" /\ increments = <<>> /\ disk_at_call = {}

IncInit ==
    /\ archive \in Archives
    /\ disk \in SUBSET DiskNames
    /\ ipc = "idle" /\ increments = <<>> /\ disk_at_call = {}

\* the archiver, or anything else, creates a file in the directory
DiskCreate ==
    /\ \E nm \in DiskNames \ disk : disk' = disk \cup {nm}
    /\ UNCHANGED <<ipc, increments, disk_at_call>>
    /\ UNCHANGED <<addVars, notInc>>

\* a file of the directory is removed
DiskRemove ==
    /\ \E nm \in disk : disk' = disk \ {nm}
    /\ UNCHANGED <<ipc, increments, disk_at_call>>
    /\ UNCHANGED <<addVars, notInc>>

\* a call of zpaq_increments(archive) returns
ZpaqIncrements ==
    /\ increments' \in zpaq_increments(disk, archive)
    /\ disk_at_call' = disk
    /\ ipc' = "returned"
    /\ UNCHANGED disk
    /\ UNCHANGED <<addVars, notInc>>

----------------------------------------------------------------------------
(* The specifications *)

InitMatch ==
    MatchInit /\ BatchOff /\ AddOff /\ WalkOff /\ IncOff /\ WalkManyOff /\ DotOff

NextMatch == Matches

SpecMatch == InitMatch /\ [][NextMatch]_vars

\* `for b in batch(iter(source), count)`: the consumer calls next() as soon
\* as it holds a batch
InitBatch ==
    BatchInit /\ MatchOff /\ AddOff /\ WalkOff /\ IncOff /\ WalkManyOff /\ DotOff

NextBatch ==
    \/ BatchStart
    \/ BatchPull
    \/ BatchStop
    \/ BatchResume
    \/ BatchBreak

SpecBatch == InitBatch /\ [][NextBatch]_vars

InitAdd == AddInit /\ MatchOff /\ WalkOff /\ IncOff /\ WalkManyOff /\ DotOff

\* zpaq_add drives the batch generator: the generator runs only inside the
\* for statement's next()
NextAdd ==
    \/ ZpaqForNext /\ BatchStart
    \/ ZpaqForNext /\ BatchResume
    \/ ZpaqForNext /\ BatchBreak
    \/ BatchPull
    \/ BatchStop
    \/ ZpaqPopen
    \/ ChildWriteOut
    \/ ChildWriteErr
    \/ ChildCloseStdout
    \/ ChildExit
    \/ ZpaqReadline
    \/ ZpaqEof
    \/ ZpaqCommunicateRead
    \/ ZpaqCommunicateWait
    \/ ZpaqCommunicateTimeout
    \/ ZpaqStatus
    \/ ZpaqEnd

SpecAdd == InitAdd /\ [][NextAdd]_vars

\* the steps of zpaq_add and of a subprocess that writes what it has to
\* write and then exits: it does not close its stdout before it exits
NextAddExits ==
    \/ ZpaqForNext /\ BatchStart
    \/ ZpaqForNext /\ BatchResume
    \/ ZpaqForNext /\ BatchBreak
    \/ BatchPull
    \/ BatchStop
    \/ ZpaqPopen
    \/ ChildWriteOut
    \/ ChildWriteErr
    \/ ChildExit
    \/ ZpaqReadline
    \/ ZpaqEof
    \/ ZpaqCommunicateRead
    \/ ZpaqCommunicateWait
    \/ ZpaqStatus
    \/ ZpaqEnd

InitWalk ==
    WalkInit /\ MatchIdle /\ BatchOff /\ AddOff /\ IncOff /\ WalkManyOff /\ DotOff

\* `for p in walk(path, accepts, rejects)`: the consumer calls next() as
\* soon as it holds a path
NextWalk ==
    \/ WalkStart
    \/ WalkPop
    \/ WalkEntry
    \/ WalkEndFor
    \/ WalkResume
    \/ WalkReturn

SpecWalk == InitWalk /\ [][NextWalk]_vars

InitInc ==
    IncInit /\ AddIdle /\ MatchOff /\ BatchOff /\ WalkOff /\ WalkManyOff /\ DotOff

\* calls of zpaq_increments, and the directory changing between them
NextInc ==
    \/ DiskCreate
    \/ DiskRemove
    \/ ZpaqIncrements

SpecInc == InitInc /\ [][NextInc]_vars

InitWalkMany ==
    WalkManyInit /\ MatchIdle /\ BatchOff /\ AddOff /\ IncOff /\ DotOff

\* `for p in walk_many(paths, accepts, rejects)`: the consumer calls next()
\* as soon as it holds a path; the walks run inside yield from
NextWalkMany ==
    \/ WalkManyNext
    \/ WalkManyYieldFromEnd
    \/ WalkManyReturn
    \/ WalkStart
    \/ WalkPop
    \/ WalkEntry
    \/ WalkEndFor
    \/ WalkResume
    \/ WalkReturn

SpecWalkMany == InitWalkMany /\ [][NextWalkMany]_vars

InitDot ==
    DotfileInit /\ MatchOff /\ BatchOff /\ AddOff /\ WalkOff /\ IncOff
    /\ WalkManyOff

NextDot ==
    \/ DotfileCall
    \/ DotfileStep
    \/ DotfileEnd

SpecDot == InitDot /\ [][NextDot]_vars

----------------------------------------------------------------------------
(* The pipeline of line 182, with one root: zpaq_add(archive, root, walk).  *)
(* batch's stream is the walk generator: next(stream) runs the walk up to  *)
(* its next yield.  Here stream holds the path next(stream) has just       *)
(* returned, until batch appends it, and source the paths returned so far. *)

\* the trees of the pipeline hold directories and regular files, and the
\* walk is given no accepts and either no rejects or ["*.tmp"]
PipeTrees == {f \in Trees : \A p \in DOMAIN f : f[p] \in {"dir", "file"}}

PipeFilters == {f \in WalkFilters : f[1] = None}

PipeInit ==
    /\ fs \in PipeTrees
    /\ \E f \in PipeFilters : accepts = f[1] /\ rejects = f[2]
    /\ path = WalkRoot
    /\ queue = <<>> /\ max_queue = 0 /\ base_path = <<>> /\ listing = <<>>
    /\ wpc = "start" /\ yielded = <<>> /\ listed = <<>>
    /\ BatchCreated(<<>>, BatchSize)
    /\ archive \in Archives /\ root = WalkRoot /\ zpaq = "zpaq"
    /\ zpc = "for" /\ taken = 0 /\ files = <<>>
    /\ proc = NoProc /\ returncode = NoneInt /\ invocations = <<>>
    /\ zret = NoneInt /\ zexc = ""

\* batch is inside next(stream) and holds no path it has not appended
InNextOfStream == bpc = "run" /\ stream = <<>>

\* line 116, the first next(stream): the walk starts to run
PipeWalkStart == InNextOfStream /\ WalkStart

\* line 116, a later next(stream): the walk goes on after its yield
PipeWalkResume ==
    InNextOfStream /\ Len(source) = Len(yielded) /\ WalkResume

\* lines 97 and 116: the path the walk yields is what next(stream) returns
PipeDeliver ==
    /\ InNextOfStream /\ wpc = "yield" /\ Len(source) < Len(yielded)
    /\ stream' = <<yielded[Len(yielded)]>>
    /\ source' = Append(source, yielded[Len(yielded)])
    /\ UNCHANGED <<count, batch, n, bpc, batches>>
    /\ UNCHANGED notBatch

\* lines 87 and 119: the walk has returned, next(stream) raises
\* StopIteration
PipeStop == wpc = "done" /\ BatchStop

InitPipe == PipeInit /\ MatchIdle /\ IncOff /\ WalkManyOff /\ DotOff

NextPipe ==
    \/ ZpaqForNext /\ BatchStart
    \/ ZpaqForNext /\ BatchResume
    \/ ZpaqForNext /\ BatchBreak
    \/ PipeWalkStart
    \/ WalkPop
    \/ WalkEntry
    \/ WalkEndFor
    \/ PipeWalkResume
    \/ WalkReturn
    \/ PipeDeliver
    \/ BatchPull
    \/ PipeStop
    \/ ZpaqPopen
    \/ ChildWriteOut
    \/ ChildWriteErr
    \/ ChildCloseStdout
    \/ ChildExit
    \/ ZpaqReadline
    \/ ZpaqEof
    \/ ZpaqCommunicateRead
    \/ ZpaqCommunicateWait
    \/ ZpaqCommunicateTimeout
    \/ ZpaqStatus
    \/ ZpaqEnd

SpecPipe == InitPipe /\ [][NextPipe]_vars

----------------------------------------------------------------------------
(* Termination: a walk, a batch generator and a call of zpaq_add, each on  *)
(* its own, with a consumer that goes on calling next(), an interpreter    *)
(* that goes on running and a subprocess that is scheduled and does not    *)
(* close its stdout before it exits.                                       *)

InitTerm == InitWalk \/ InitBatch \/ InitAdd

\* batch on its own: no call of zpaq_add drives it
NextBatchAlone == zpc = "off" /\ NextBatch

NextTerm ==
    \/ NextWalk
    \/ NextBatchAlone
    \/ NextAddExits

SpecTerm ==
    /\ InitTerm
    /\ [][NextTerm]_vars
    /\ WF_vars(NextWalk)
    /\ WF_vars(NextBatchAlone)
    /\ WF_vars(NextAddExits)

----------------------------------------------------------------------------
(* Claims about matches *)

SomeMatch(s, pats) == \E i \in 1..Len(pats) : fnmatch(s, pats[i])

\* C5: accept precedence: a string that matches at least one pattern of
\* accepts passes, whatever rejects contains.
C5_AcceptPrecedence ==
    (mpc = "return" /\ value.isStr /\ SomeMatch(value.s, OrEmpty(accepts)))
        => mret = TRUE

C5_Witness ==
    /\ mpc = "return" /\ value.isStr
    /\ SomeMatch(value.s, OrEmpty(accepts))
    /\ SomeMatch(value.s, OrEmpty(rejects))
    /\ mret = TRUE

\* C6: a string that matches no pattern of accepts is rejected exactly when
\* it matches some pattern of rejects; with both lists empty or None every
\* string passes, and a non-empty accepts list alone rejects nothing.
C6_RejectIffRejectMatches ==
    (mpc = "return" /\ value.isStr /\ ~SomeMatch(value.s, OrEmpty(accepts)))
        => /\ (mret = FALSE) <=> SomeMatch(value.s, OrEmpty(rejects))
           /\ (OrEmpty(rejects) = <<>>) => mret = TRUE

C6_Witness ==
    /\ mpc = "return" /\ value.isStr
    /\ OrEmpty(accepts) # <<>>
    /\ ~SomeMatch(value.s, OrEmpty(accepts))
    /\ rejects = None
    /\ mret = TRUE

\* C7: a collection passes exactly when every one of its elements passes as
\* a single string (so the empty collection passes, and one rejected segment
\* rejects the whole collection).
C7_CollectionAllSegments ==
    (mpc = "return" /\ ~value.isStr)
        => (mret = TRUE <=>
              \A i \in 1..Len(value.segs) :
                  matches(Str(value.segs[i]), accepts, rejects))

C7_Witness ==
    /\ mpc = "return" /\ ~value.isStr
    /\ \E i, j \in 1..Len(value.segs) :
          /\ ~matches(Str(value.segs[i]), accepts, rejects)
          /\ SomeMatch(value.segs[j], OrEmpty(accepts))
    /\ mret = FALSE

----------------------------------------------------------------------------
(* Claims about batch *)

RECURSIVE Concat(_)
Concat(ss) == IF ss = <<>> THEN <<>> ELSE Head(ss) \o Concat(Tail(ss))

IsPrefix(s, u) == Len(s) <= Len(u) /\ SubSeq(u, 1, Len(s)) = s

\* C3: the batches yielded so far, concatenated in yield order, are always
\* a prefix of the source (nothing is lost, doubled or reordered), and once
\* batch has returned they are the whole source; the empty source yields
\* exactly one batch, the empty one.
C3_BatchRoundTrip ==
    /\ IsPrefix(Concat(batches), source)
    /\ bpc = "done" =>
          /\ Concat(batches) = source
          /\ source = <<>> => batches = << <<>> >>

C3_Witness ==
    /\ bpc = "done"
    /\ Len(batches) = 2
    /\ Len(batches[1]) = 2 /\ Len(batches[2]) = 1
    /\ \E i, j \in 1..Len(source) : source[i] # source[j]

\* C4: no batch is longer than the capacity, every batch but the final one
\* holds exactly capacity elements, and only the final batch may be empty.
C4_BatchSizes ==
    \A i \in 1..Len(batches) :
        /\ Len(batches[i]) <= count
        /\ (i < Len(batches) \/ bpc \notin {"last", "done"})
              => Len(batches[i]) = count /\ batches[i] # <<>>

C4_Witness ==
    /\ bpc = "done"
    /\ Len(batches) = 3
    /\ count = 2
    /\ batches[3] = <<>>

----------------------------------------------------------------------------
(* Claims about zpaq_add *)

Failed(i) == ~invocations[i].status.isNone /\ invocations[i].status.int # 0

\* C1: once the invocation for a batch has ended with a status other than
\* 0, no later invocation is ever made, that batch is invoked once, and
\* zpaq_add returns that status.
C1_FirstFailureAborts ==
    /\ \A i \in 1..Len(invocations) :
          /\ invocations[i].batch = i
          /\ Failed(i) =>
                /\ i = Len(invocations)
                /\ zpc \in {"status", "returned"}
                /\ zpc = "returned" => zret = invocations[i].status
    /\ Len(invocations) <= taken

C1_Witness ==
    /\ zpc = "returned"
    /\ zret = Int_(2)
    /\ Len(source) = 2 * BatchSize
    /\ Len(invocations) = 2
    /\ invocations[1].status = Int_(0)
    /\ invocations[2].status = Int_(2)

\* C2: when every invocation has ended with status 0 and zpaq_add has
\* returned, the returned value is the integer 0.
C2_ReturnsZeroOnSuccess ==
    (/\ zpc = "returned"
     /\ \A i \in 1..Len(invocations) : invocations[i].status = Int_(0))
        => zret = Int_(0)

\* the text of a name before its first dot, said without a scan: a prefix
\* that holds no dot and is followed by a dot or by the end of the name
IsBaseOf(b, name) ==
    /\ IsPrefix(b, name)
    /\ \A i \in 1..Len(b) : b[i] # "."
    /\ Len(b) = Len(name) \/ name[Len(b) + 1] = "."

\* C11: the pattern zpaq_add hands to the archiver is the archive's
\* parent directory followed by <text before the first dot>-???.zpaq, and
\* it is the pattern zpaq_path(archive, True) gives, which is the one
\* zpaq_increments expands.
C11_SameVolumePattern ==
    \A i \in 1..Len(invocations) :
        LET target == invocations[i].argv.target
            last == target[Len(target)]
        IN  /\ target = zpaq_path(archive, TRUE)
            /\ Parent(target) = archive.parent
            /\ \E k \in 0..Len(archive.name) :
                  /\ IsBaseOf(SubSeq(archive.name, 1, k), archive.name)
                  /\ last = SubSeq(archive.name, 1, k) \o VolumeSuffix

C11_Witness ==
    /\ Len(invocations) >= 1
    /\ archive.name = <<"x", ".", "y", ".", "z", "p", "a", "q">>
    /\ invocations[1].argv.target =
          << <<"b">>, <<"x", "-", "?", "?", "?", ".", "z", "p", "a", "q">> >>

\* C12: every invocation is <zpaq> add <volume pattern> <path>... with
\* working directory root; the i-th invocation is given the paths of the
\* i-th batch yielded, in the batch's order, each relative to root.
C12_InvocationForm ==
    \A i \in 1..Len(invocations) :
        LET inv == invocations[i]
        IN  /\ inv.argv.bin = zpaq /\ zpaq # "None"
            /\ inv.argv.cmd = "add"
            /\ inv.argv.target = archive_path(archive)
            /\ inv.cwd = root
            /\ i <= Len(batches)
            /\ Len(inv.argv.paths) = Len(batches[i])
            /\ \A j \in 1..Len(batches[i]) :
                  /\ root \o inv.argv.paths[j] = batches[i][j]
                  /\ Len(inv.argv.paths[j]) < Len(batches[i][j])

C12_Witness ==
    /\ Len(invocations) = 2
    /\ Len(invocations[1].argv.paths) = 2
    /\ invocations[1].argv.paths[1] = << <<"d">>, <<"b">> >>
    /\ invocations[1].argv.paths[2] = << <<"a">> >>
    /\ Len(invocations[2].argv.paths) = 1

\* the subprocess of the current invocation has closed its stdout while it
\* goes on running
ClosedEarly == proc.state = "closed"

\* C13, as claimed: an invocation cannot deadlock on output.  While an
\* invocation is under way and the subprocess is one that writes and then
\* exits, zpaq_add or the subprocess can take a step; as the subprocess
\* has finitely much to write, the invocation then ends with its exit
\* status read.
C13_InvocationNeverStuck ==
    (Running /\ ~ClosedEarly) => ENABLED NextAddExits

\* the step starts an invocation
Invokes == Len(invocations') = Len(invocations) + 1

Ended == zpc \in {"returned", "raised"}

\* C14: an invocation starts only from the for statement, when no
\* subprocess of an earlier invocation is alive and the exit status of the
\* one before has been read as 0; once zpaq_add has ended, by a return or
\* an exception, nothing is invoked any more and it stays ended.
C14_OneWriterAtATime ==
    [][ /\ Invokes =>
            /\ zpc = "for" /\ zpc' = "drain"
            /\ proc.state \in {"none", "exited"}
            /\ \A i \in 1..Len(invocations) :
                  invocations[i].status = Int_(0)
            /\ invocations'[Len(invocations')].batch = Len(invocations) + 1
        /\ Ended => (invocations' = invocations /\ zpc' = zpc)
        /\ Len(invocations') >= Len(invocations)
      ]_vars

C14_Witness ==
    /\ Len(invocations) = 2
    /\ zpc = "drain" /\ proc.state = "running"
    /\ invocations[1].status = Int_(0)
    /\ invocations[2].status = NoneInt

\* C19: a call that ends with no failed invocation has made one invocation
\* for each batch yielded, Len(source) \div BatchSize + 1 of them, and when
\* the number of paths is a multiple of the capacity the last invocation
\* has no path argument.
C19_OneInvocationPerBatch ==
    (zpc = "returned" /\ \A i \in 1..Len(invocations) : ~Failed(i)) =>
        /\ Len(invocations) = Len(batches)
        /\ Len(invocations) = (Len(source) \div BatchSize) + 1
        /\ (Len(source) % BatchSize = 0) =>
              invocations[Len(invocations)].argv.paths = <<>>

C19_Witness ==
    /\ zpc = "returned"
    /\ Len(source) = BatchSize
    /\ Len(invocations) = 2
    /\ ~Failed(2)
    /\ invocations[2].argv.paths = <<>>

----------------------------------------------------------------------------
(* Claims about walk *)

NoFilter == OrEmpty(accepts) = <<>> /\ OrEmpty(rejects) = <<>>

Range(s) == {s[i] : i \in 1..Len(s)}

NoDuplicates(s) == \A i, j \in 1..Len(s) : i # j => s[i] # s[j]

\* C8, as claimed: with empty accepts and rejects, a finished walk has
\* yielded exactly the regular files of the tree, each once, and never a
\* directory.
C8_YieldsExactlyRegularFiles ==
    /\ NoDuplicates(yielded)
    /\ \A i \in 1..Len(yielded) : ~isdir(fs, yielded[i])
    /\ (wpc = "done" /\ NoFilter)
          => Range(yielded) = {p \in DOMAIN fs : fs[p] = "file"}

\* C8, amended: with empty accepts and rejects, a finished walk has yielded
\* exactly the entries of the tree that are not directories (the regular
\* files and every other entry for which os.path.isdir is false), each once,
\* and never a directory.
C8_YieldsExactlyNonDirectories ==
    /\ NoDuplicates(yielded)
    /\ \A i \in 1..Len(yielded) : ~isdir(fs, yielded[i])
    /\ (wpc = "done" /\ NoFilter)
          => Range(yielded) = {p \in DOMAIN fs : fs[p] # "dir"}

C8_Witness ==
    /\ wpc = "done" /\ NoFilter
    /\ Len(yielded) = 2
    /\ \E p \in DOMAIN fs : fs[p] = "dir" /\ Len(p) = Len(path) + 1
    /\ \E i \in 1..Len(yielded) :
          Len(yielded[i]) = Len(path) + 2 /\ fs[yielded[i]] = "file"
    /\ \E i \in 1..Len(yielded) : fs[yielded[i]] = "other"

\* the segments of a path below the root of the walk
Below(p) == {p[i] : i \in (Len(path) + 1)..Len(p)}

Passes(name) == matches(Str(name), accepts, rejects)

\* C9: a directory whose name fails matches is never pushed and never
\* listed, and nothing below it is yielded; with rejects = ["*.tmp"] and no
\* accepts, no segment below the root of a yielded path matches *.tmp.
C9_RejectedSubtreesNeverVisited ==
    /\ \A d \in DOMAIN fs :
          (fs[d] = "dir" /\ ~Passes(d[Len(d)])) =>
              /\ d \notin Range(queue) /\ d \notin Range(listed)
              /\ d # base_path
              /\ \A i \in 1..Len(yielded) : ~IsUnder(yielded[i], d)
    /\ (OrEmpty(accepts) = <<>> /\ rejects = Some(<<PatTmp>>)) =>
          \A i \in 1..Len(yielded) :
              \A seg \in Below(yielded[i]) : ~fnmatch(seg, PatTmp)

C9_Witness ==
    /\ wpc = "done"
    /\ OrEmpty(accepts) = <<>> /\ rejects = Some(<<PatTmp>>)
    /\ WalkRoot \o <<NameTmp, NameA>> \in DOMAIN fs
    /\ fs[WalkRoot \o <<NameTmp, NameA>>] = "file"
    /\ yielded = << WalkRoot \o <<NameA>> >>

\* p is a strict ancestor of q
IsAncestor(p, q) == Len(p) < Len(q) /\ SubSeq(q, 1, Len(p)) = p

\* C20: at every point of a walk the queue holds pairwise distinct
\* directories under the root, none of them an ancestor of another; no
\* directory is on the queue after it was listed or listed twice, so each
\* is pushed and listed at most once; every segment below the root of a
\* pushed directory passes matches; the root is the first directory listed
\* whatever its own name.
C20_QueueDiscipline ==
    /\ NoDuplicates(listed \o queue)
    /\ \A i \in 1..Len(queue) :
          /\ isdir(fs, queue[i])
          /\ queue[i] = path \/ IsAncestor(path, queue[i])
          /\ \A j \in 1..Len(queue) : ~IsAncestor(queue[i], queue[j])
          /\ \A nm \in Below(queue[i]) : Passes(nm)
    /\ \A i \in 1..Len(listed) :
          /\ isdir(fs, listed[i])
          /\ \A nm \in Below(listed[i]) : Passes(nm)
    /\ wpc = "start" => (queue = <<>> /\ listed = <<>>)
    /\ listed # <<>> => listed[1] = path
    /\ wpc = "done" => (queue = <<>> /\ listed # <<>>)
    /\ max_queue <= Len(listed \o queue)

C20_Witness ==
    /\ rejects = Some(<<PatTmp>>)
    /\ ~Passes(path[Len(path)])
    /\ listed = <<path, path \o <<NameD>>>>
    /\ Len(queue) = 2
    /\ wpc = "for" /\ listing = <<>>

----------------------------------------------------------------------------
(* Claims about walk_many *)

\* what a walk of the directory r yields, as a set: the entries below r
\* that are not directories and whose segments below r all pass matches
WalkSet(r) ==
    { p \in DOMAIN fs :
        /\ fs[p] # "dir" /\ IsAncestor(r, p)
        /\ \A i \in (Len(r) + 1)..Len(p) : Passes(p[i]) }

\* where the part of a log that belongs to the k-th walk ends
YieldedEnd(k) ==
    IF k < Len(starts) THEN starts[k + 1].nyielded ELSE Len(yielded)

ListedEnd(k) ==
    IF k < Len(starts) THEN starts[k + 1].nlisted ELSE Len(listed)

WalkEnded(k) == k < Len(starts) \/ wpc = "done"

\* C15: walk_many walks the roots in the order of paths, one walk at a
\* time: the k-th walk is of paths[k] and is created only when the walk
\* before it has returned; what walk_many yields is, walk after walk, what
\* the walk of that root yields, so every path of one root comes before any
\* path of the next, and every directory listed during the k-th walk is
\* paths[k] or below it.
C15_WalksInOrder ==
    /\ Len(starts) + Len(todo) = Len(paths)
    /\ \A k \in 1..Len(starts) :
          LET part == SubSeq(yielded, starts[k].nyielded + 1, YieldedEnd(k))
              dirs == SubSeq(listed, starts[k].nlisted + 1, ListedEnd(k))
          IN  /\ starts[k].root = paths[k]
              /\ starts[k].before = IF k = 1 THEN "off" ELSE "done"
              /\ NoDuplicates(part)
              /\ Range(part) \subseteq WalkSet(paths[k])
              /\ WalkEnded(k) => Range(part) = WalkSet(paths[k])
              /\ \A i \in 1..Len(dirs) :
                    dirs[i] = paths[k] \/ IsAncestor(paths[k], dirs[i])
              /\ WalkEnded(k) => (dirs # <<>> /\ dirs[1] = paths[k])
    /\ wmpc = "done" => (Len(starts) = Len(paths) /\ wpc \in {"off", "done"})

C15_Witness ==
    /\ wmpc = "done"
    /\ paths = <<WalkRoot \o <<NameD>>, WalkRoot>>
    /\ OrEmpty(accepts) = <<>> /\ OrEmpty(rejects) = <<>>
    /\ yielded = << WalkRoot \o <<NameD, NameA>>,
                    WalkRoot \o <<NameA>>,
                    WalkRoot \o <<NameD, NameA>> >>

----------------------------------------------------------------------------
(* Claims about zpaq_increments *)

\* the code point of a character of a file name
Ord(c) ==
    CASE c = "-" -> 45 [] c = "." -> 46 [] c = "0" -> 48 [] c = "1" -> 49
      [] c = "a" -> 97 [] c = "p" -> 112 [] c = "q" -> 113
      [] c = "x" -> 120 [] c = "y" -> 121 [] c = "z" -> 122

\* s sorts before u as a string
RECURSIVE StrLess(_, _)
StrLess(s, u) ==
    IF u = <<>> THEN FALSE
    ELSE IF s = <<>> THEN TRUE
    ELSE IF Head(s) # Head(u) THEN Ord(Head(s)) < Ord(Head(u))
    ELSE StrLess(Tail(s), Tail(u))

\* the paths of one directory, ordered by file name
Sorted(S) ==
    CHOOSE o \in Orders(S) :
        \A i, j \in 1..Len(o) :
            i < j => StrLess(o[i][Len(o[i])], o[j][Len(o[j])])

Volumes(names, arch) == GlobSet(names, zpaq_path(arch, TRUE))

\* C10: a call returns, for the directory as it is when the call is made,
\* the existing files that match <base>-???.zpaq ordered by file name when
\* there is one; otherwise the literal archive alone if it exists;
\* otherwise the empty list.
C10_IncrementsSortedOrLiteral ==
    ipc = "returned" =>
        increments =
            IF Volumes(disk_at_call, archive) # {}
            THEN Sorted(Volumes(disk_at_call, archive))
            ELSE IF archive.name \in disk_at_call
            THEN <<zpaq_path(archive, FALSE)>>
            ELSE <<>>

\* what the code does guarantee: the same, with the volumes in any order
IncrementsUnordered ==
    ipc = "returned" =>
        IF Volumes(disk_at_call, archive) # {}
        THEN /\ Range(increments) = Volumes(disk_at_call, archive)
             /\ NoDuplicates(increments)
        ELSE IF archive.name \in disk_at_call
        THEN increments = <<zpaq_path(archive, FALSE)>>
        ELSE increments = <<>>

----------------------------------------------------------------------------
(* Claims about the pipeline *)

\* an invocation of the archiver is under way
Invoking == zpc \in {"drain", "communicate", "status"}

\* C17: when batch hands over its i-th full batch it has pulled exactly
\* i * count paths, and the walk has yielded no more than those; while the
\* archiver runs for a batch the walk has produced no path beyond the
\* batches handed over; and at no time has the walk produced more than one
\* path batch has not pulled.
C17_LazyPipeline ==
    /\ bpc = "yield" =>
          /\ Len(source) = Len(batches) * count
          /\ Len(yielded) = Len(source)
          /\ \A i \in 1..Len(batches) : Len(batches[i]) = count
    /\ Invoking =>
          /\ Len(invocations) = Len(batches)
          /\ Len(yielded) = Len(Concat(batches))
          /\ yielded = Concat(batches)
    /\ Len(yielded) <= Len(source) + 1
    /\ IsPrefix(source, yielded)

C17_Witness ==
    /\ zpc = "drain" /\ proc.state = "running"
    /\ Len(invocations) = 1 /\ bpc = "yield"
    /\ Len(invocations[1].argv.paths) = BatchSize
    /\ Len(yielded) = BatchSize
    /\ wpc = "yield"
    /\ WalkSet(path) \ Range(yielded) # {}

----------------------------------------------------------------------------
(* Claims about termination *)

\* every subprocess started exits
EverySubprocessExits == [](Invoking => <>(proc.state = "exited"))

\* C16: a walk of a finite tree ends; a batch generator over a finite
\* stream ends; and a call of zpaq_add whose subprocesses all exit ends, by
\* a return or by an exception.
C16_Termination ==
    /\ <>(wpc \in {"off", "done"})
    /\ <>(zpc # "off" \/ bpc \in {"off", "done"})
    /\ EverySubprocessExits => <>(zpc \in {"off", "returned", "raised"})

C16_Witness ==
    /\ zpc = "returned" /\ bpc = "done"
    /\ Len(invocations) = 3
    /\ Len(source) = MaxPaths

----------------------------------------------------------------------------
(* Claims about dotfile *)

\* the directory the search starts from
DotStart == IF base = PyNone THEN cwd ELSE base.p

\* the search starts in HOME or below it
UnderHome ==
    /\ user_home.type = "str"
    /\ DotStart = user_home.p \/ IsAncestor(user_home.p, DotStart)

\* C18, as claimed: the search does not go above HOME: when it starts in
\* HOME or below, no strict ancestor of HOME is examined and the file
\* returned is not in one.
C18_StopsAtHome ==
    UnderHome =>
        /\ \A i \in 1..Len(examined) : ~IsAncestor(examined[i], user_home.p)
        /\ (dpc = "returned" /\ dret # PyNone) =>
              ~IsAncestor(PathParent(dret.p), user_home.p)

====
